---- MODULE Spec2Model ----
(***************************************************************************)
(* Semantic product search: the ChromaProductRepository (products cache    *)
(* plus persisted vector collection), the ProductSearchService on top of   *)
(* it, and the process lifecycle that runs load_products at startup.       *)
(*                                                                         *)
(* Scores and distances are exact rationals in units of 1/3000, so that    *)
(* 1.0 = One = 3000 units and "3 decimals" = a multiple of 3 units.  The   *)
(* grid has points strictly between two 3-decimal values and has no        *)
(* rounding ties.                                                          *)
(***************************************************************************)
EXTENDS Integers, Sequences, FiniteSets, TLC

VARIABLES settings, phase, collection, products_cache, last,
          heap, cache_ref, loader, reader

(* The statement-level view of load_products and get_product_by_id *)
steps == <<heap, cache_ref, loader, reader>>

vars == <<settings, phase, collection, products_cache, last, steps>>

----------------------------------------------------------------------------
(* Bounds of the model                                                     *)

MaxCatalog == 3     \* records in the catalog source

(* Scale: 1.0 is One units *)
One == 3000

(* Product ids that occur in the catalog source *)
Ids == {1, 2, 3}

None == 0           \* request.top_k absent (a present top_k is >= 1)

(* Settings that the environment may configure (config.py:22-24).  The     *)
(* pairs include the shipped defaults 5 / 20 / 0.3 and smaller values that *)
(* make clamping and the threshold observable on a small index.            *)
SettingsValues ==
    {[DEFAULT_SEARCH_TOP_K |-> 5, MAX_SEARCH_TOP_K |-> 20,
      MIN_RELEVANCE_SCORE |-> 900],                  \* the defaults, 0.3
     [DEFAULT_SEARCH_TOP_K |-> 5, MAX_SEARCH_TOP_K |-> 1,
      MIN_RELEVANCE_SCORE |-> 901]}                  \* 0.300333...

(* Cosine distances the index reports, in [0, 2]: 0.0, 0.699666... (score  *)
(* 0.300333..., strictly between two 3-decimal values) and 2.0.            *)
Distances == {0, 2099, 6000}

Max2(a, b) == IF a >= b THEN a ELSE b
Min2(a, b) == IF a <= b THEN a ELSE b

Range(s) == {s[i] : i \in 1..Len(s)}

SeqsUpTo(S, n) == UNION {[1..m -> S] : m \in 0..n}

----------------------------------------------------------------------------
(* Catalog source: products.json as parsed by json.load                    *)

(* A raw record is a JSON object holding all required fields with valid    *)
(* values (valid), a JSON object with a missing or invalid required field, *)
(* or a JSON value that is not an object at all (string, number, null).    *)
RawItems ==
    [shape : {"object"}, valid : {TRUE}, id : Ids]
        \cup {[shape |-> "object", valid |-> FALSE, id |-> 0],
              [shape |-> "scalar", valid |-> FALSE, id |-> 0]}

Catalogs == SeqsUpTo(RawItems, MaxCatalog)

(* str(product.id) and int(results['ids'][0][i]) *)
IdStr(i) == ToString(i)
IdInt(s) == CHOOSE i \in Ids : ToString(i) = s

----------------------------------------------------------------------------
(* Pure helpers of the repository and the service                          *)

(* One iteration of the parse loop of load_products.  Product(...) on an   *)
(* object with a missing or invalid field raises inside the try block and  *)
(* the handler logs item.get('id') and continues.  On a value that is not  *)
(* an object, item['id'] raises too, but the handler's item.get('id')      *)
(* raises AttributeError, which leaves the handler and the function.       *)
ParseItem(item) ==
    IF item.shape = "object"
        THEN IF item.valid THEN "append" ELSE "skip"
        ELSE "raise"

(* The whole parse loop: the accepted products in source order, and the    *)
(* error that left the loop, if any.                                       *)
RECURSIVE ParseFrom(_, _, _)
ParseFrom(data, i, products) ==
    IF i > Len(data)
        THEN [products |-> products, error |-> "none"]
        ELSE LET r == ParseItem(data[i]) IN
             IF r = "raise"
                THEN [products |-> products, error |-> "AttributeError"]
                ELSE ParseFrom(data, i + 1,
                               IF r = "append"
                                   THEN Append(products, data[i].id)
                                   ELSE products)

ParseProducts(data) == ParseFrom(data, 1, <<>>)

(* Variant: the loop over the products stops one short *)
IndexIds_SkipLast(products) ==
    [i \in 1..(Len(products) - 1) |-> IdStr(products[i])]

(* ids built by _index_products: one str(product.id) per product *)
IndexIds(products) == [i \in 1..Len(products) |-> IdStr(products[i])]

HasDuplicates(s) == \E i, j \in 1..Len(s) : i < j /\ s[i] = s[j]

(* collection.add: the error it raises for a batch, "none" if it accepts   *)
AddError(ids) ==
    IF Len(ids) = 0 THEN "ValueError"
    ELSE IF HasDuplicates(ids) THEN "DuplicateIDError"
    ELSE "none"

(* get_product_by_id: the first product of the cache with that id *)
get_product_by_id(cache, product_id) ==
    IF \E i \in 1..Len(cache) : cache[i] = product_id
        THEN LET i == CHOOSE i \in 1..Len(cache) :
                        /\ cache[i] = product_id
                        /\ \A j \in 1..(i - 1) : cache[j] # product_id
             IN  [found |-> TRUE, product |-> cache[i]]
        ELSE [found |-> FALSE, product |-> 0]

(* relevance_score = max(0.0, 1.0 - distance) *)
RelevanceScore(distance) == Max2(0, One - distance)

(* round(x, 3): to the nearest multiple of 1/1000 = 3 units *)
Round3(x) == ((x + 1) \div 3) * 3

(* Variant: the default is substituted but the maximum is not applied *)
ClampTopK_NoMax(top_k) ==
    IF top_k = None THEN settings.DEFAULT_SEARCH_TOP_K ELSE top_k

(* top_k = min(request.top_k or DEFAULT_SEARCH_TOP_K, MAX_SEARCH_TOP_K) *)
ClampTopK(top_k) ==
    Min2(IF top_k = None THEN settings.DEFAULT_SEARCH_TOP_K ELSE top_k,
         settings.MAX_SEARCH_TOP_K)

(* Variant: the loop ends at the first match that is not in the cache *)
RECURSIVE Hydrate_StopAtMissing(_, _, _)
Hydrate_StopAtMissing(matches, i, cache) ==
    IF i > Len(matches) THEN <<>>
    ELSE LET product_id == IdInt(matches[i].id)
             p == get_product_by_id(cache, product_id)
         IN  IF p.found
                THEN <<[id |-> p.product,
                        relevance_score |-> RelevanceScore(matches[i].distance)]>>
                     \o Hydrate_StopAtMissing(matches, i + 1, cache)
                ELSE <<>>

(* The loop of ChromaProductRepository.search_products over the matches    *)
(* of the index: score each, hydrate from the cache, keep the hydrated.    *)
RECURSIVE Hydrate(_, _, _)
Hydrate(matches, i, cache) ==
    IF i > Len(matches) THEN <<>>
    ELSE LET product_id == IdInt(matches[i].id)
             p == get_product_by_id(cache, product_id)
             rest == Hydrate(matches, i + 1, cache)
         IN  IF p.found
                THEN <<[id |-> p.product,
                        relevance_score |-> RelevanceScore(matches[i].distance)]>>
                     \o rest
                ELSE rest

(* Variant: the threshold is compared the wrong way round *)
FilterByMinScore_Inverted(results) ==
    SelectSeq(results,
              LAMBDA r : r.relevance_score <= settings.MIN_RELEVANCE_SCORE)

(* filtered_results of the service *)
FilterByMinScore(results) ==
    SelectSeq(results,
              LAMBDA r : r.relevance_score >= settings.MIN_RELEVANCE_SCORE)

(* result_dtos of the service: the score rounded to 3 decimals *)
ToDTOs(results) ==
    [i \in 1..Len(results) |->
        [id |-> results[i].id,
         relevance_score |-> Round3(results[i].relevance_score)]]

(* SearchResultDTO's Field(ge=0.0, le=1.0) *)
DTOValid(dto) == dto.relevance_score >= 0 /\ dto.relevance_score <= One

(* collection.query(n_results = k): the possible answers for some query    *)
(* vector: min(k, count) distinct entries, nearest first.                  *)
QueryAnswers(coll, k) ==
    LET n == Min2(k, Cardinality(coll))
        picks == {p \in [1..n -> coll] :
                    \A i, j \in 1..n : i < j => p[i] # p[j]}
        dists == {d \in [1..n -> Distances] :
                    \A i \in 1..(n - 1) : d[i] <= d[i + 1]}
    IN  {[i \in 1..n |-> [id |-> p[i], distance |-> d[i]]] :
            p \in picks, d \in dists}

----------------------------------------------------------------------------
(* State                                                                   *)
(*   settings        Settings, fixed for the run                           *)
(*   phase           "constructed": repository built, lifespan not run     *)
(*                   "serving": lifespan yielded, requests are served      *)
(*                   "failed": lifespan raised, the process serves nothing *)
(*   collection      ids held by the persisted Chroma collection           *)
(*   products_cache  self._products_cache, a list of products (by id)      *)
(*   heap, cache_ref, loader, reader                                       *)
(*                   used only where load_products and get_product_by_id   *)
(*                   are taken statement by statement (CacheSpec below);   *)
(*                   elsewhere each handler is one step, as the event loop *)
(*                   runs it, and these stay as they start                 *)
(*   last            what the most recent operation was given, which       *)
(*                   backend calls it made and what it returned or raised: *)
(*                   data/fault/top_k are its inputs, count_before the     *)
(*                   collection count it found, matches the index answer,  *)
(*                   results the repository's return, filtered and         *)
(*                   response the service's filtered list and DTO list     *)

NoLast ==
    [op |-> "init", data |-> <<>>, fault |-> "none", error |-> "none",
     calls |-> <<>>, count_before |-> 0, top_k |-> None, k |-> 0,
     matches |-> <<>>, results |-> <<>>, filtered |-> <<>>,
     response |-> <<>>, status |-> "none"]

(* No load_products and no get_product_by_id is part-way through *)
IdleLoader == [pc |-> "idle", data |-> <<>>, i |-> 0, old |-> <<>>]
IdleReader == [pc |-> "idle", product_id |-> 0, ref |-> 0, i |-> 0,
               found |-> FALSE]

Init ==
    /\ settings \in SettingsValues
    /\ phase = "constructed"
    /\ collection = {}
    /\ products_cache = <<>>
    /\ last = NoLast
    /\ heap = <<>>
    /\ cache_ref = 0
    /\ loader = IdleLoader
    /\ reader = IdleReader

(* A new process over the same persist directory: __init__ opens the       *)
(* collection that is on disk and starts with an empty cache.              *)
Restart ==
    /\ phase \in {"serving", "failed"}
    /\ phase' = "constructed"
    /\ products_cache' = <<>>
    /\ last' = [NoLast EXCEPT !.op = "__init__",
                              !.calls = <<"get_or_create_collection">>,
                              !.count_before = Cardinality(collection)]
    /\ UNCHANGED <<settings, collection, steps>>

(* Variant: each product is embedded and added on its own, so a failing    *)
(* embedding leaves the products before it in the collection.              *)
IndexProducts_OneByOne(products, fault) ==
    LET ids == IndexIds(products) IN
    IF fault = "embedding"
        THEN [error |-> "EmbeddingFailure",
              calls |-> <<"embed_texts", "add", "embed_texts">>,
              collection |-> collection \cup {ids[i] : i \in 1..(Len(ids) - 1)}]
    ELSE IF AddError(ids) # "none"
        THEN [error |-> AddError(ids), calls |-> <<"embed_texts", "add">>,
              collection |-> collection]
    ELSE [error |-> "none", calls |-> <<"embed_texts", "add">>,
          collection |-> collection \cup Range(ids)]

(* _index_products(products): what it calls, raises and leaves in the      *)
(* collection.  embed_texts comes before collection.add.                   *)
IndexProducts(products, fault) ==
    LET ids == IndexIds(products) IN
    IF fault = "embedding"
        THEN [error |-> "EmbeddingFailure", calls |-> <<"embed_texts">>,
              collection |-> collection]
    ELSE IF AddError(ids) # "none"
        THEN [error |-> AddError(ids), calls |-> <<"embed_texts", "add">>,
              collection |-> collection]
    ELSE [error |-> "none", calls |-> <<"embed_texts", "add">>,
          collection |-> collection \cup Range(ids)]

(* Variant: the count check is dropped and every load indexes *)
ShouldIndex_Always(count) == TRUE

(* "if self.collection.count() == 0": index only into an empty collection *)
ShouldIndex(count) == count = 0

(* Variant: lifespan logs the exception and yields all the same *)
LifespanPhase_SwallowError(error) == "serving"

(* lifespan: it yields, and the application serves, when load_products     *)
(* returned; it re-raises what load_products raised, and startup fails.    *)
LifespanPhase(error) == IF error = "none" THEN "serving" ELSE "failed"

(* lifespan: load_products() at startup; any exception aborts startup.     *)
load_products(data, fault) ==
    /\ phase = "constructed"
    /\ LET base == [NoLast EXCEPT !.op = "load_products", !.data = data,
                                  !.fault = fault,
                                  !.count_before = Cardinality(collection)]
           parsed == ParseProducts(data)
       IN
       IF fault = "catalog"
          THEN /\ last' = [base EXCEPT !.error = "CatalogLoadFailure"]
               /\ phase' = LifespanPhase("CatalogLoadFailure")
               /\ UNCHANGED <<products_cache, collection>>
       ELSE IF parsed.error # "none"
          THEN /\ last' = [base EXCEPT !.error = parsed.error]
               /\ phase' = LifespanPhase(parsed.error)
               /\ UNCHANGED <<products_cache, collection>>
       ELSE IF ShouldIndex(Cardinality(collection))
          THEN LET ix == IndexProducts(parsed.products, fault) IN
               /\ products_cache' = parsed.products
               /\ collection' = ix.collection
               /\ last' = [base EXCEPT !.error = ix.error,
                                       !.calls = <<"count">> \o ix.calls]
               /\ phase' = LifespanPhase(ix.error)
          ELSE /\ products_cache' = parsed.products
               /\ last' = [base EXCEPT !.calls = <<"count">>]
               /\ phase' = LifespanPhase("none")
               /\ UNCHANGED collection
    /\ UNCHANGED <<settings, steps>>

(* ChromaProductRepository.search_products(query, top_k = k) *)
RepoSearch(k, fault, matches) ==
    IF fault = "embedding"
        THEN [error |-> "EmbeddingFailure", calls |-> <<"embed_text">>,
              matches |-> <<>>, results |-> <<>>]
    ELSE IF fault = "index"
        THEN [error |-> "IndexUnavailable", calls |-> <<"embed_text", "query">>,
              matches |-> <<>>, results |-> <<>>]
    ELSE [error |-> "none", calls |-> <<"embed_text", "query">>,
          matches |-> matches,
          results |-> Hydrate(matches, 1, products_cache)]

(* Variant: a failed index query makes the repository recreate the         *)
(* collection before the error is passed on.                               *)
search_products_ResetOnIndexError(top_k, fault, matches) ==
    /\ phase = "serving"
    /\ LET k == ClampTopK(top_k)
           repo == RepoSearch(k, fault, matches)
           filtered_results == FilterByMinScore(repo.results)
           dtos == ToDTOs(filtered_results)
           base == [NoLast EXCEPT !.op = "search_products", !.fault = fault,
                                  !.top_k = top_k, !.k = k,
                                  !.count_before = Cardinality(collection),
                                  !.calls = repo.calls,
                                  !.matches = repo.matches,
                                  !.results = repo.results]
       IN
       last' = IF repo.error # "none"
                     THEN [base EXCEPT !.error = repo.error]
                  ELSE IF \E i \in 1..Len(dtos) : ~DTOValid(dtos[i])
                     THEN [base EXCEPT !.error = "ValidationError"]
                  ELSE [base EXCEPT !.filtered = filtered_results,
                                    !.response = dtos]
    /\ collection' = IF fault = "index" THEN {} ELSE collection
    /\ UNCHANGED <<settings, phase, products_cache, steps>>

(* POST /products/search -> ProductSearchService.search_products(request)  *)
search_products(top_k, fault, matches) ==
    /\ phase = "serving"
    /\ LET k == ClampTopK(top_k)
           repo == RepoSearch(k, fault, matches)
           filtered_results == FilterByMinScore(repo.results)
           dtos == ToDTOs(filtered_results)
           base == [NoLast EXCEPT !.op = "search_products", !.fault = fault,
                                  !.top_k = top_k, !.k = k,
                                  !.count_before = Cardinality(collection),
                                  !.calls = repo.calls,
                                  !.matches = repo.matches,
                                  !.results = repo.results]
       IN
       last' = IF repo.error # "none"
                     THEN [base EXCEPT !.error = repo.error]
                  ELSE IF \E i \in 1..Len(dtos) : ~DTOValid(dtos[i])
                     THEN [base EXCEPT !.error = "ValidationError"]
                  ELSE [base EXCEPT !.filtered = filtered_results,
                                    !.response = dtos]
    /\ UNCHANGED <<settings, phase, collection, products_cache, steps>>

(* GET /products/stats *)
get_stats ==
    /\ phase = "serving"
    /\ last' = [NoLast EXCEPT
                  !.op = "get_stats",
                  !.calls = <<"count">>,
                  !.count_before = Cardinality(collection),
                  !.status = IF Len(products_cache) = Cardinality(collection)
                                 THEN "synced" ELSE "out_of_sync"]
    /\ UNCHANGED <<settings, phase, collection, products_cache, steps>>

(* Variant: the collection is reopened without being deleted *)
reset_collection_NoDelete ==
    /\ phase \in {"constructed", "serving"}
    /\ collection' = collection
    /\ last' = [NoLast EXCEPT
                  !.op = "reset_collection",
                  !.calls = <<"get_or_create_collection">>,
                  !.count_before = Cardinality(collection)]
    /\ UNCHANGED <<settings, phase, products_cache, steps>>

(* reset_collection: delete the collection and create it anew *)
reset_collection ==
    /\ phase \in {"constructed", "serving"}
    /\ collection' = {}
    /\ last' = [NoLast EXCEPT
                  !.op = "reset_collection",
                  !.calls = <<"delete_collection", "create_collection">>,
                  !.count_before = Cardinality(collection)]
    /\ UNCHANGED <<settings, phase, products_cache, steps>>

LoadFaults == {"none", "catalog", "embedding"}
SearchFaults == {"none", "embedding", "index"}
(* request.top_k: absent, or an integer >= 1 *)
TopKs == {None, 1, 2}

Load == \E data \in Catalogs, fault \in LoadFaults : load_products(data, fault)

Search ==
    \E top_k \in TopKs :
        \/ \E matches \in QueryAnswers(collection, ClampTopK(top_k)) :
                search_products(top_k, "none", matches)
        \/ \E fault \in SearchFaults \ {"none"} :
                search_products(top_k, fault, <<>>)

Next ==
    \/ Restart
    \/ Load
    \/ Search
    \/ get_stats
    \/ reset_collection

Spec == Init /\ [][Next]_vars

----------------------------------------------------------------------------
(* Properties                                                              *)

SearchReturned == last.op = "search_products" /\ last.error = "none"
LoadReturned == last.op = "load_products" /\ last.error = "none"

(* Position of a product id in the answer of the index (0 if absent) *)
MatchPos(product_id) ==
    IF \E p \in 1..Len(last.matches) : last.matches[p].id = ToString(product_id)
        THEN CHOOSE p \in 1..Len(last.matches) :
                last.matches[p].id = ToString(product_id)
        ELSE 0

(* C1: a search that returns gives at most                                 *)
(* k = min(top_k if given else DEFAULT_SEARCH_TOP_K, MAX_SEARCH_TOP_K)     *)
(* results, each with a score in [0, 1], in the order in which the index   *)
(* returned them, which is by non-increasing score.                        *)
C1_AtMostKScoredInIndexOrder ==
    SearchReturned =>
        LET k == Min2(IF last.top_k = None
                         THEN settings.DEFAULT_SEARCH_TOP_K
                         ELSE last.top_k,
                      settings.MAX_SEARCH_TOP_K)
            r == last.response
        IN  /\ Len(r) <= k
            /\ \A i \in 1..Len(r) :
                  /\ r[i].relevance_score >= 0
                  /\ r[i].relevance_score <= One
                  /\ MatchPos(r[i].id) > 0
            /\ \A i, j \in 1..Len(r) :
                  i < j => /\ MatchPos(r[i].id) < MatchPos(r[j].id)
                           /\ r[i].relevance_score >= r[j].relevance_score

(* C1 witness: a request asks for more than MAX_SEARCH_TOP_K from an index *)
(* that holds more, and gets exactly MAX_SEARCH_TOP_K results.             *)
C1_Witness ==
    /\ SearchReturned
    /\ last.top_k = 2
    /\ settings.MAX_SEARCH_TOP_K = 1
    /\ last.count_before >= 2
    /\ Len(last.response) = 1

(* C2 as stated: every score reported in the response (rounded to 3        *)
(* decimals) is >= MIN_RELEVANCE_SCORE.                                    *)
C2_ReportedScoreAtLeastMin ==
    SearchReturned =>
        \A i \in 1..Len(last.response) :
            last.response[i].relevance_score >= settings.MIN_RELEVANCE_SCORE

(* C2 amended: every returned result has an unrounded score >=             *)
(* MIN_RELEVANCE_SCORE, and its reported score is >= MIN_RELEVANCE_SCORE   *)
(* rounded to 3 decimals.                                                  *)
C2_UnroundedScoreAtLeastMin ==
    SearchReturned =>
        /\ Len(last.response) = Len(last.filtered)
        /\ \A i \in 1..Len(last.response) :
              /\ last.filtered[i].id = last.response[i].id
              /\ last.filtered[i].relevance_score >= settings.MIN_RELEVANCE_SCORE
              /\ last.response[i].relevance_score
                    >= ((settings.MIN_RELEVANCE_SCORE + 1) \div 3) * 3

(* C2 witness: a result whose score equals the threshold is returned while *)
(* a lower-scored match of the same answer is not.                         *)
C2_Witness ==
    /\ SearchReturned
    /\ Len(last.results) = 2
    /\ Len(last.response) = 1
    /\ last.filtered[1].relevance_score >= settings.MIN_RELEVANCE_SCORE
    /\ last.results[2].relevance_score < settings.MIN_RELEVANCE_SCORE

(* Every id of the index has exactly one product in the cache, and the     *)
(* cache is as long as the index is large.                                 *)
InSync ==
    /\ \A id \in collection :
          Cardinality({i \in 1..Len(products_cache) :
                          ToString(products_cache[i]) = id}) = 1
    /\ Len(products_cache) = Cardinality(collection)

(* C3 as stated: after any load_products that returns, index and cache     *)
(* are in sync.                                                            *)
C3_InSyncAfterAnyLoad == LoadReturned => InSync

(* C3 amended: after a load_products that found the index empty, so that   *)
(* it indexed what it loaded, and returned, index and cache are in sync.   *)
C3_InSyncAfterIndexingLoad ==
    (LoadReturned /\ last.count_before = 0) => InSync

(* C3 witness: a load into an empty index that indexed several products *)
C3_Witness ==
    /\ LoadReturned
    /\ last.count_before = 0
    /\ Len(products_cache) >= 2
    /\ Cardinality(collection) >= 2

(* The ids of the valid records of a catalog, in source order *)
ValidIds(data) ==
    LET ok == SelectSeq(data, LAMBDA item : item.shape = "object" /\ item.valid)
    IN  [i \in 1..Len(ok) |-> ok[i].id]

IndexingCalls == {"embed_texts", "add"}

(* C4 as stated: a load_products that finds a non-empty index changes      *)
(* neither the index nor the products cache and makes no embedding or add  *)
(* call.                                                                   *)
C4_LoadOnPopulatedIndexChangesNothing ==
    [][(last'.op = "load_products" /\ last'.count_before > 0) =>
          /\ collection' = collection
          /\ Range(last'.calls) \cap IndexingCalls = {}
          /\ products_cache' = products_cache]_vars

(* C4 amended: a load_products that finds a non-empty index leaves the     *)
(* index as it is and makes no embedding or add call; when it returns, the *)
(* products cache holds the products parsed from the catalog it was given, *)
(* whatever the cache held before.                                         *)
C4_LoadOnPopulatedIndexSkipsIndexing ==
    [][(last'.op = "load_products" /\ last'.count_before > 0) =>
          /\ collection' = collection
          /\ Range(last'.calls) \cap IndexingCalls = {}
          /\ last'.error = "none" => products_cache' = ValidIds(last'.data)]_vars

(* C4 witness: a load that returned after finding a populated index, with  *)
(* a catalog that lists a product the index does not hold.                 *)
C4_Witness ==
    /\ LoadReturned
    /\ last.count_before > 0
    /\ Cardinality(collection) = last.count_before
    /\ \E i \in 1..Len(products_cache) :
          ToString(products_cache[i]) \notin collection

(* C5: a catalog of object records in which two valid records share an id  *)
(* loads without raising, also when the index is empty, and leaves each id *)
(* at most once in the products cache.                                     *)
C5_DuplicateIdsDroppedWithoutAbort ==
    (/\ last.op = "load_products"
     /\ last.fault = "none"
     /\ \A i \in 1..Len(last.data) : last.data[i].shape = "object"
     /\ HasDuplicates(ValidIds(last.data)))
        => /\ last.error = "none"
           /\ ~HasDuplicates(products_cache)

(* C6: when the index query succeeds, the repository's search_products     *)
(* returns without raising exactly the matches whose id has a product in   *)
(* the cache, in the order of the index answer.                            *)
C6_MissingProductDroppedOthersInOrder ==
    (last.op = "search_products" /\ last.fault = "none") =>
        LET kept == SelectSeq(last.matches,
                        LAMBDA m : \E i \in 1..Len(products_cache) :
                                        ToString(products_cache[i]) = m.id)
        IN  /\ last.error \in {"none", "ValidationError"}
            /\ Len(last.results) = Len(kept)
            /\ \A i \in 1..Len(kept) :
                  ToString(last.results[i].id) = kept[i].id

(* C6 witness: of three matches the first has no product in the cache and  *)
(* the other two are returned.                                             *)
C6_Witness ==
    /\ last.op = "search_products"
    /\ last.fault = "none"
    /\ Len(last.matches) = 3
    /\ Len(last.results) = 2
    /\ \A i \in 1..Len(products_cache) :
          ToString(products_cache[i]) # last.matches[1].id

(* C7: a load_products whose embedding step fails raises that failure,     *)
(* startup fails, nothing was added and the index count is still 0.        *)
C7_EmbeddingFailureCommitsNothing ==
    (/\ last.op = "load_products"
     /\ last.fault = "embedding"
     /\ \E i \in 1..Len(last.calls) : last.calls[i] = "embed_texts")
        => /\ last.error = "EmbeddingFailure"
           /\ phase = "failed"
           /\ \A i \in 1..Len(last.calls) : last.calls[i] # "add"
           /\ last.count_before = 0
           /\ Cardinality(collection) = 0

(* C7 witness: the embedding of a batch of two products failed *)
C7_Witness ==
    /\ last.op = "load_products"
    /\ last.error = "EmbeddingFailure"
    /\ Len(products_cache) = 2
    /\ phase = "failed"

(* C8: a load_products given a catalog with a record that fails Product    *)
(* construction does not raise because of that record and leaves every     *)
(* valid record of the catalog in the products cache.                      *)
C8_BadRecordSkipped ==
    (/\ last.op = "load_products"
     /\ last.fault = "none"
     /\ \E i \in 1..Len(last.data) : ~last.data[i].valid)
        => /\ last.error # "AttributeError"
           /\ \A i \in 1..Len(ValidIds(last.data)) :
                 ValidIds(last.data)[i] \in Range(products_cache)

(* C9: reset_collection leaves the index with count 0, and a search on the *)
(* index so emptied, its embedding and query calls working, returns an     *)
(* empty result list.                                                      *)
C9_ResetThenSearchIsEmpty ==
    /\ last.op = "reset_collection" => Cardinality(collection) = 0
    /\ (/\ last.op = "search_products"
        /\ last.fault = "none"
        /\ last.count_before = 0)
          => /\ last.error = "none"
             /\ last.response = <<>>
             /\ collection = {}

(* C9 witness: a search on the reset index of a process whose products     *)
(* cache is populated.                                                     *)
C9_Witness ==
    /\ SearchReturned
    /\ last.count_before = 0
    /\ Len(products_cache) > 0
    /\ last.response = <<>>

(* C10: a search_products step, returning or raising, leaves the products  *)
(* cache and the index as they were and calls neither reset nor indexing.  *)
C10_SearchMutatesNothing ==
    [][last'.op = "search_products" =>
          /\ products_cache' = products_cache
          /\ collection' = collection
          /\ Range(last'.calls) \subseteq {"embed_text", "query"}]_vars

(* C10 witness: a search that failed on the index query, in a process with *)
(* a populated cache and index.                                            *)
C10_Witness ==
    /\ last.op = "search_products"
    /\ last.error = "IndexUnavailable"
    /\ Len(products_cache) > 0
    /\ Cardinality(collection) > 0

----------------------------------------------------------------------------
(* The distance-to-score conversion on its own: one product is loaded and  *)
(* indexed, and every search gets that product back at some distance.      *)

(* Distances of the single match: a grid over [0, 2] in steps of 1/60, and *)
(* -1 for the slightly negative value that 1 - cos gives in float32 when   *)
(* the query vector and the indexed vector have the same direction.        *)
ScoreDistances == {-1} \cup {50 * n : n \in 0..120}

OneProductCatalog == <<[shape |-> "object", valid |-> TRUE, id |-> 1]>>

ScoreLoad == load_products(OneProductCatalog, "none")

ScoreSearch ==
    \E d \in ScoreDistances :
        search_products(None, "none", <<[id |-> IdStr(1), distance |-> d]>>)

ScoreNext == ScoreLoad \/ ScoreSearch

ScoreSpec == Init /\ [][ScoreNext]_vars

(* C11: the score the repository gives a match is 1.0 at distance 0, 0.0   *)
(* at any distance >= 1.0, never negative, never above 1.0, and never      *)
(* lower than the score of a match at a greater or equal distance.         *)
C11_ScoreMonotonicBounded ==
    (/\ last.op = "search_products"
     /\ Len(last.matches) = 1
     /\ Len(last.results) = 1)
        => LET d == last.matches[1].distance
               score == last.results[1].relevance_score
           IN  /\ d = 0 => score = One
               /\ d >= One => score = 0
               /\ score >= 0
               /\ score <= One
               /\ \A d2 \in ScoreDistances :
                     d2 >= d => RelevanceScore(d2) <= score

(* C12: in every process load_products runs once, at startup, before any   *)
(* search is served: it runs only in a process that has just been          *)
(* constructed, searches are served only after it returned, and when it    *)
(* raised the process serves nothing; only a new process follows.          *)
C12_LoadOnceBeforeAnySearch ==
    [][/\ last'.op = "load_products" =>
              /\ phase = "constructed"
              /\ phase' = IF last'.error = "none" THEN "serving" ELSE "failed"
       /\ last'.op = "search_products" => phase = "serving" /\ phase' = "serving"
       /\ (phase' = "serving" /\ phase # "serving") =>
              last'.op = "load_products" /\ last'.error = "none"
       /\ (phase' = "constructed" /\ phase # "constructed") =>
              last'.op = "__init__"
       /\ phase = "failed" => last'.op = "__init__"]_vars

(* C12 witness: a process started over an index that an earlier process    *)
(* populated fails to read the catalog and ends up serving nothing.        *)
C12_Witness ==
    /\ phase = "failed"
    /\ last.op = "load_products"
    /\ last.error = "CatalogLoadFailure"
    /\ last.count_before > 0

-----------------------------------------------------------------------------
(* load_products and get_product_by_id, statement by statement             *)
(*                                                                         *)
(* A load_products call running beside get_product_by_id lookups, each     *)
(* taken one statement at a time and interleaved freely, as threads        *)
(* sharing the repository would run them. heap holds the two list objects  *)
(* in play and cache_ref says which of them self._products_cache refers    *)
(* to; products_cache is the content of that list.                         *)

MaxReload == 2

(* The list self._products_cache refers to when load_products is called *)
OldList == 1

(* The list bound to the local name products (products = []) *)
NewList == 2

(* Caches a load_products call can find: empty at startup, the products of *)
(* an earlier load otherwise.                                              *)
OldCaches == SeqsUpTo(Ids, MaxReload)

ReloadCatalogs == SeqsUpTo(RawItems, MaxReload)

DefaultSettings == CHOOSE s \in SettingsValues : s.MAX_SEARCH_TOP_K = 20

(* load_products has read products.json and bound products = [] *)
CacheInit ==
    /\ settings = DefaultSettings
    /\ phase = "constructed"
    /\ collection = {}
    /\ last = NoLast
    /\ \E old \in OldCaches, data \in ReloadCatalogs :
          /\ heap = <<old, <<>>>>
          /\ products_cache = old
          /\ loader = [pc |-> "parse", data |-> data, i |-> 1, old |-> old]
    /\ cache_ref = OldList
    /\ reader = IdleReader

(* Variant: the loop appends to the list the cache refers to *)
LoadTarget_InPlace == cache_ref

(* The list products.append(product) appends to *)
LoadTarget == NewList

(* One turn of the parse loop: the record is appended, skipped with a      *)
(* warning, or the handler's own item.get raises and the call ends; past   *)
(* the last record the loop is left.                                       *)
LoadParseStep ==
    /\ loader.pc = "parse"
    /\ IF loader.i > Len(loader.data)
          THEN /\ loader' = [loader EXCEPT !.pc = "assign"]
               /\ heap' = heap
          ELSE LET item == loader.data[loader.i]
                   r == ParseItem(item)
               IN  /\ loader' = IF r = "raise"
                                    THEN [loader EXCEPT !.pc = "raised"]
                                    ELSE [loader EXCEPT !.i = @ + 1]
                   /\ heap' = IF r = "append"
                                  THEN [heap EXCEPT
                                            ![LoadTarget] = Append(@, item.id)]
                                  ELSE heap
    /\ products_cache' = heap'[cache_ref]
    /\ UNCHANGED <<settings, phase, collection, last, cache_ref, reader>>

(* self._products_cache = products *)
LoadAssign ==
    /\ loader.pc = "assign"
    /\ cache_ref' = NewList
    /\ products_cache' = heap[NewList]
    /\ loader' = [loader EXCEPT !.pc = "done"]
    /\ UNCHANGED <<settings, phase, collection, last, heap, reader>>

(* get_product_by_id is called: the for statement reads                    *)
(* self._products_cache once and iterates the list it got.                 *)
GetBegin ==
    /\ reader.pc \in {"idle", "returned"}
    /\ \E product_id \in Ids :
          reader' = [pc |-> "iterate", product_id |-> product_id,
                     ref |-> cache_ref, i |-> 1, found |-> FALSE]
    /\ UNCHANGED <<settings, phase, collection, products_cache, last,
                   heap, cache_ref, loader>>

(* One turn of the lookup loop: the product is returned when its id        *)
(* matches, None past the end of the list.                                 *)
GetStep ==
    /\ reader.pc = "iterate"
    /\ LET list == heap[reader.ref] IN
       reader' = IF reader.i > Len(list)
                     THEN [reader EXCEPT !.pc = "returned", !.found = FALSE]
                     ELSE IF list[reader.i] = reader.product_id
                              THEN [reader EXCEPT !.pc = "returned",
                                                  !.found = TRUE]
                              ELSE [reader EXCEPT !.i = @ + 1]
    /\ UNCHANGED <<settings, phase, collection, products_cache, last,
                   heap, cache_ref, loader>>

CacheNext == LoadParseStep \/ LoadAssign \/ GetBegin \/ GetStep

CacheSpec == CacheInit /\ [][CacheNext]_vars

(* C13: the cache always holds the complete old product set or the         *)
(* complete new one, and a get_product_by_id lookup interleaved with a     *)
(* load iterates one of these two and answers as that set answers, never   *)
(* from a partially built set.                                             *)
C13_ReaderSeesOldOrNewSet ==
    LET complete == {loader.old, ValidIds(loader.data)} IN
    /\ products_cache \in complete
    /\ reader.pc \in {"iterate", "returned"} =>
          /\ heap[reader.ref] \in complete
          /\ reader.i <= Len(heap[reader.ref]) + 1
    /\ reader.pc = "returned" =>
          \E set \in complete :
             reader.found = get_product_by_id(set, reader.product_id).found

(* C13 witness: a lookup that began while the load's list was part built   *)
(* has walked past the first product of the old set, which differs from    *)
(* the new one.                                                            *)
C13_Witness ==
    /\ loader.pc = "parse"
    /\ Len(heap[NewList]) >= 1
    /\ loader.i <= Len(loader.data)
    /\ reader.pc = "iterate"
    /\ reader.i > 1
    /\ loader.old # ValidIds(loader.data)

====
